---- MODULE Spec2Model ----
(***************************************************************************)
(* Model of src/app.py: a Flask service that stores sensor readings in a    *)
(* PostgreSQL table (when DATABASE_URL is set) or in one JSON file per      *)
(* reading under data/ (when it is not), and serves the latest reading of   *)
(* a device.                                                                *)
(*                                                                          *)
(* Strings that the code compares or orders (device ids, ISO timestamps,    *)
(* file names) are sequences of character codes, so that startswith and     *)
(* max over file names are computed as Python computes them.  JSON values   *)
(* are pairs <<tag, chars>>: <<"null", <<>>>>, <<"num", <<n>>>> and         *)
(* <<"str", chars>>.  A wall-clock instant is [day, sec, usec] inside       *)
(* January 2024.  Each request handler is one atomic action.                *)
(***************************************************************************)
EXTENDS Integers, Sequences, FiniteSets, TLC

VARIABLES phase, backend, tableExists, now, rows, nextId, files, openConns,
          log, resp, ord

vars == <<phase, backend, tableExists, now, rows, nextId, files, openConns,
          log, resp, ord>>

(* ---------------------------- bounds ----------------------------------- *)

MaxTick == 1        \* clock readings 0..MaxTick, half a second apart
MaxRecords == 2     \* save_data calls that reach the store
MaxLeak == 1        \* inserts that raise (each leaves a connection)
MaxOrderDay == 10   \* days 9..MaxOrderDay in the file-name ordering check
MaxOrderMin == 10   \* minutes 9..MaxOrderMin
MaxOrderSec == 10   \* seconds 8..MaxOrderSec

(* ---------------------------- JSON values ------------------------------ *)

Null == <<"null", <<>>>>
Num(n) == <<"num", <<n>>>>
Str(s) == <<"str", s>>

EmptyMap == [k \in {} |-> Null]

\* dict.get(key): the value, or None when the key is absent
Get(m, k) == IF k \in DOMAIN m THEN m[k] ELSE Null

\* dict.get(key, default)
GetOr(m, k, default) == IF k \in DOMAIN m THEN m[k] ELSE default

(* ---------------------------- strings ---------------------------------- *)

RECURSIVE LexLess(_, _)
\* Python's str < str: code point order, a proper prefix is smaller
LexLess(a, b) ==
    IF a = <<>> THEN b # <<>>
    ELSE IF b = <<>> THEN FALSE
    ELSE IF Head(a) < Head(b) THEN TRUE
    ELSE IF Head(a) > Head(b) THEN FALSE
    ELSE LexLess(Tail(a), Tail(b))

\* max(device_files)
MaxStr(S) == CHOOSE x \in S : \A y \in S : y = x \/ LexLess(y, x)

\* f.startswith(p)
StartsWith(f, p) == Len(f) >= Len(p) /\ SubSeq(f, 1, Len(p)) = p

\* the f-string rendering of a device_id: a string as is, None as "None"
FmtValue(v) == IF v = Null THEN <<78, 111, 110, 101>> ELSE v[2]

TwoDigitsUnpadded(n) == IF n < 10 THEN <<48 + n>> ELSE <<48 + (n \div 10), 48 + (n % 10)>>

\* %02d
TwoDigits(n) == <<48 + (n \div 10), 48 + (n % 10)>>

\* %06d
SixDigits(n) ==
    <<48 + (n \div 100000), 48 + ((n \div 10000) % 10), 48 + ((n \div 1000) % 10),
      48 + ((n \div 100) % 10), 48 + ((n \div 10) % 10), 48 + (n % 10)>>

\* datetime.isoformat(): "2024-01-DDTHH:MM:SS", then ".ffffff" unless usec = 0
IsoFormat(t) ==
    <<50, 48, 50, 52, 45, 48, 49, 45>> \o TwoDigits(t.day) \o <<84>>
      \o TwoDigits(t.sec \div 3600) \o <<58>>
      \o TwoDigits((t.sec \div 60) % 60) \o <<58>>
      \o TwoDigits(t.sec % 60)
      \o (IF t.usec = 0 THEN <<>> ELSE <<46>> \o SixDigits(t.usec))

\* timestamp.replace(':', '-')
ReplaceColon(s) == [i \in 1..Len(s) |-> IF s[i] = 58 THEN 45 ELSE s[i]]

\* f"{device_id}_{timestamp.replace(':', '-')}.json" (inside data/)
FileName(device_id, t) ==
    FmtValue(device_id) \o <<95>> \o ReplaceColon(IsoFormat(t))
      \o <<46, 106, 115, 111, 110>>

(* ---------------------------- time ------------------------------------- *)

\* the wall clock at reading k: 2024-01-01 00:00:09 plus k half seconds
TimeOf(k) == [day |-> 1, sec |-> 9 + (k \div 2), usec |-> (k % 2) * 500000]

TimeLess(a, b) ==
    \/ a.day < b.day
    \/ a.day = b.day /\ a.sec < b.sec
    \/ a.day = b.day /\ a.sec = b.sec /\ a.usec < b.usec

(* ---------------------------- inputs ----------------------------------- *)

RequiredFields == <<"device_id", "temperature", "humidity", "flow_rate">>
OptionalFields == {"flow_direction", "latitude", "longitude"}
ReadingFields == {"temperature", "humidity", "flow_rate", "flow_direction",
                  "latitude", "longitude"}

DevA == <<97>>             \* "a"
DevAB == <<97, 95, 98>>    \* "a_b"
DevNone == <<78, 111, 110, 101>>   \* "None"
Unknown == Str(<<117, 110, 107, 110, 111, 119, 110>>)   \* 'unknown'

\* device_id = data.get('device_id', 'unknown')
DeviceIdOf(data) == GetOr(data, "device_id", Unknown)

PathIds == {DevA, DevAB, DevNone}
DeviceValues == {Str(DevA), Str(DevAB), Null}

Required == {RequiredFields[i] : i \in 1..Len(RequiredFields)}

MakePayload(K, d, t) ==
    [k \in K |-> CASE k = "device_id" -> d
                   [] k = "temperature" -> Num(t)
                   [] k = "humidity" -> Num(40)
                   [] k = "flow_rate" -> Num(7)
                   [] k = "flow_direction" -> Num(t)
                   [] k = "latitude" -> Num(51)
                   [] OTHER -> Num(71)]

\* payloads with every required key, with and without the optional keys
ValidPayloads ==
    {MakePayload(Required, d, 1) : d \in DeviceValues}
      \cup {MakePayload(Required \cup OptionalFields, Str(DevA), 2)}

\* payloads that lack at least one required key
InvalidPayloads ==
    {MakePayload(K, Str(DevA), 1) : K \in (SUBSET Required) \ {Required}}
      \cup {MakePayload(K \cup OptionalFields, Str(DevA), 1) :
               K \in {Required \ {k} : k \in Required}}

Payloads == ValidPayloads \cup InvalidPayloads

(* ---------------------------- validation ------------------------------- *)

HasRequiredLoose(data) ==
    \E i \in 1..Len(RequiredFields) : RequiredFields[i] \in DOMAIN data

\* all(field in data for field in required_fields)
HasRequired(data) ==
    \A i \in 1..Len(RequiredFields) : RequiredFields[i] \in DOMAIN data

(* ---------------------------- encoding --------------------------------- *)

\* json.dump(data, f): the object as its set of key/value members
JsonDump(data) == {<<k, data[k]>> : k \in DOMAIN data}

\* json.load(f)
JsonLoad(text) ==
    [k \in {m[1] : m \in text} |-> (CHOOSE m \in text : m[1] = k)[2]]

\* the row the INSERT produces; timestamp is the column default
InsertRow(id, data, t) ==
    [id |-> id,
     device_id |-> DeviceIdOf(data),
     temperature |-> Get(data, "temperature"),
     humidity |-> Get(data, "humidity"),
     flow_rate |-> Get(data, "flow_rate"),
     flow_direction |-> Get(data, "flow_direction"),
     latitude |-> Get(data, "latitude"),
     longitude |-> Get(data, "longitude"),
     timestamp |-> t]

\* the dict get_latest_data builds from the selected row
RowBody(device, row) ==
    [k \in ReadingFields \cup {"device_id", "timestamp"} |->
        CASE k = "device_id" -> Str(device)
          [] k = "timestamp" -> Str(IsoFormat(row.timestamp))
          [] OTHER -> row[k]]

\* rows the SELECT ... ORDER BY timestamp DESC LIMIT 1 may return
LatestRows(device) ==
    LET match == {i \in 1..Len(rows) : rows[i].device_id = Str(device)}
    IN {i \in match : \A j \in match : ~TimeLess(rows[i].timestamp, rows[j].timestamp)}

\* [f for f in os.listdir('data') if f.startswith(f"{device_id}_")]
DeviceFiles(device) == {f \in DOMAIN files : StartsWith(f, device \o <<95>>)}

(* ---------------------------- responses -------------------------------- *)

Response(op, device, data, fault, status, error, body, escaped, saveInvoked) ==
    [op |-> op, device |-> device, data |-> data, fault |-> fault,
     status |-> status, error |-> error, body |-> body,
     escaped |-> escaped, saveInvoked |-> saveInvoked]

NoResponse == Response("none", <<>>, EmptyMap, "none", 0, "", EmptyMap, FALSE, FALSE)

OrdIdle == [pc |-> "idle", dev |-> Null, t1 |-> TimeOf(0), t2 |-> TimeOf(0),
            f1 |-> <<>>, f2 |-> <<>>, latest |-> <<>>]

(* ---------------------------- the service ------------------------------ *)

Init ==
    /\ phase = "boot"
    /\ backend \in {"db", "file"}
    /\ tableExists = FALSE
    /\ now = 0
    /\ rows = <<>>
    /\ nextId = 1
    /\ files = [f \in {} |-> {}]
    /\ openConns = 0
    /\ log = <<>>
    /\ resp = NoResponse
    /\ ord = OrdIdle

\* before_first_request() -> init_db(), run at import
InitDb(fault) ==
    /\ phase = "boot"
    /\ \/ /\ backend = "db"
          /\ fault \in {"none", "connect", "query"}
          /\ phase' = IF fault = "connect" THEN "crashed" ELSE "serving"
          /\ tableExists' = (fault = "none")
       \/ /\ backend = "file"
          /\ fault \in {"none", "io"}
          /\ phase' = IF fault = "io" THEN "crashed" ELSE "serving"
          /\ UNCHANGED tableExists
    /\ UNCHANGED <<backend, now, rows, nextId, files, openConns, log, resp, ord>>

\* the wall clock advances
Tick ==
    /\ phase = "serving"
    /\ now < MaxTick
    /\ now' = now + 1
    /\ UNCHANGED <<phase, backend, tableExists, rows, nextId, files, openConns,
                   log, resp, ord>>

LogEntry(data) == [device |-> DeviceIdOf(data), data |-> data, time |-> TimeOf(now)]

\* receive_sensor_data() with save_data() inlined
Post(data, fault) ==
    /\ phase = "serving"
    /\ IF ~HasRequired(data)
       THEN /\ fault = "none"
            /\ resp' = Response("POST", <<>>, data, fault, 400,
                                "Missing required fields", EmptyMap, FALSE, FALSE)
            /\ UNCHANGED <<rows, nextId, files, openConns, log>>
       ELSE /\ Len(log) < MaxRecords
            /\ nextId <= MaxRecords
            /\ IF backend = "db"
               THEN /\ fault \in {"none", "connect", "query"}
                    /\ (fault = "query" \/ ~tableExists \/ DeviceIdOf(data) = Null)
                          => openConns < MaxLeak
                    /\ IF fault = "connect"
                       THEN \* psycopg2.connect raises outside any try
                            /\ resp' = Response("POST", <<>>, data, fault, 500, "",
                                                EmptyMap, TRUE, TRUE)
                            /\ UNCHANGED <<rows, nextId, openConns, log>>
                       ELSE IF fault = "query" \/ ~tableExists
                                 \/ DeviceIdOf(data) = Null
                       THEN \* execute raises: except returns False, no close
                            /\ openConns' = openConns + 1
                            /\ nextId' = IF fault = "none" /\ tableExists
                                         THEN nextId + 1 ELSE nextId
                            /\ resp' = Response("POST", <<>>, data, fault, 500,
                                                "Failed to save data", EmptyMap,
                                                FALSE, TRUE)
                            /\ UNCHANGED <<rows, log>>
                       ELSE /\ rows' = Append(rows, InsertRow(nextId, data, TimeOf(now)))
                            /\ nextId' = nextId + 1
                            /\ log' = Append(log, LogEntry(data))
                            /\ resp' = Response("POST", <<>>, data, fault, 200, "",
                                                data, FALSE, TRUE)
                            /\ UNCHANGED openConns
                    /\ UNCHANGED files
               ELSE /\ fault \in {"none", "io"}
                    /\ IF fault = "io"
                       THEN /\ resp' = Response("POST", <<>>, data, fault, 500,
                                                "Failed to save data", EmptyMap,
                                                FALSE, TRUE)
                            /\ UNCHANGED <<files, log>>
                       ELSE LET name == FileName(DeviceIdOf(data), TimeOf(now))
                            IN /\ files' = [f \in DOMAIN files \cup {name} |->
                                              IF f = name THEN JsonDump(data)
                                              ELSE files[f]]
                               /\ log' = Append(log, LogEntry(data))
                               /\ resp' = Response("POST", <<>>, data, fault, 200, "",
                                                   data, FALSE, TRUE)
                    /\ UNCHANGED <<rows, nextId, openConns>>
    /\ UNCHANGED <<phase, backend, tableExists, now, ord>>

\* get_latest_data(device_id)
GetLatest(device, fault) ==
    /\ phase = "serving"
    /\ IF backend = "db"
       THEN /\ fault \in {"none", "connect", "query"}
            /\ IF fault = "connect"
               THEN resp' = Response("GET", device, EmptyMap, fault, 500, "",
                                     EmptyMap, TRUE, FALSE)
               ELSE IF fault = "query" \/ ~tableExists
               THEN resp' = Response("GET", device, EmptyMap, fault, 500,
                                     "Database error", EmptyMap, FALSE, FALSE)
               ELSE IF LatestRows(device) = {}
               THEN resp' = Response("GET", device, EmptyMap, fault, 404,
                                     "No data found for device", EmptyMap,
                                     FALSE, FALSE)
               ELSE \E i \in LatestRows(device) :
                        resp' = Response("GET", device, EmptyMap, fault, 200, "",
                                         RowBody(device, rows[i]), FALSE, FALSE)
       ELSE /\ fault \in {"none", "io"}
            /\ IF fault = "io"
               THEN resp' = Response("GET", device, EmptyMap, fault, 500,
                                     "Error retrieving data", EmptyMap, FALSE, FALSE)
               ELSE IF DeviceFiles(device) = {}
               THEN resp' = Response("GET", device, EmptyMap, fault, 404,
                                     "No data found for device", EmptyMap,
                                     FALSE, FALSE)
               ELSE resp' = Response("GET", device, EmptyMap, fault, 200, "",
                                     JsonLoad(files[MaxStr(DeviceFiles(device))]),
                                     FALSE, FALSE)
    /\ UNCHANGED <<phase, backend, tableExists, now, rows, nextId, files,
                   openConns, log, ord>>

(* ------------------- file names of two saves of one device ------------- *)

OrderTimes ==
    {[day |-> d, sec |-> h * 3600 + m * 60 + x, usec |-> u] :
        d \in 9..MaxOrderDay, h \in {9, 10}, m \in 9..MaxOrderMin,
        x \in 8..MaxOrderSec, u \in {0, 500000, 999999}}

InitOrder ==
    /\ phase = "boot"
    /\ backend = "file"
    /\ tableExists = FALSE
    /\ now = 0
    /\ rows = <<>>
    /\ nextId = 1
    /\ files = [f \in {} |-> {}]
    /\ openConns = 0
    /\ log = <<>>
    /\ resp = NoResponse
    /\ \E d \in DeviceValues, a \in OrderTimes, b \in OrderTimes :
          ord = [pc |-> "start", dev |-> d, t1 |-> a, t2 |-> b,
                 f1 |-> <<>>, f2 |-> <<>>, latest |-> <<>>]

\* save_data names the file of each of the two saves
NameFiles ==
    /\ ord.pc = "start"
    /\ ord' = [ord EXCEPT !.pc = "named",
                          !.f1 = FileName(ord.dev, ord.t1),
                          !.f2 = FileName(ord.dev, ord.t2)]
    /\ UNCHANGED <<phase, backend, tableExists, now, rows, nextId, files,
                   openConns, log, resp>>

\* get_latest_data takes max over the two names
PickLatest ==
    /\ ord.pc = "named"
    /\ ord' = [ord EXCEPT !.pc = "done", !.latest = MaxStr({ord.f1, ord.f2})]
    /\ UNCHANGED <<phase, backend, tableExists, now, rows, nextId, files,
                   openConns, log, resp>>

NextOrder == NameFiles \/ PickLatest

SpecOrder == InitOrder /\ [][NextOrder]_vars

Boot == \E fault \in {"none", "connect", "query", "io"} : InitDb(fault)
Receive == \E data \in Payloads, fault \in {"none", "connect", "query", "io"} :
              Post(data, fault)
Retrieve == \E device \in PathIds, fault \in {"none", "connect", "query", "io"} :
              GetLatest(device, fault)

Next == Boot \/ Tick \/ Receive \/ Retrieve

Spec == Init /\ [][Next]_vars

(* ---------------------------- properties ------------------------------- *)

\* indices of the successful saves whose reading has device_id = dv
SavesFor(dv) == {i \in 1..Len(log) : log[i].device = dv}

\* the six measured fields agree, an absent key reading as null
SameReading(body, data) == \A k \in ReadingFields : Get(body, k) = Get(data, k)

\* the backend is able to answer: no injected fault, and the table exists
Healthy == resp.fault = "none" /\ (backend = "db" => tableExists)

\* number of persisted records
StoreSize == IF backend = "db" THEN Len(rows) ELSE Cardinality(DOMAIN files)

\* b is at least one second after a
AtLeastOneSecond(a, b) ==
    LET sa == a.day * 86400 + a.sec
        sb == b.day * 86400 + b.sec
    IN sb - sa >= 2 \/ (sb - sa = 1 /\ b.usec >= a.usec)

\* C1: when a device has at least two saved readings and one of them is
\* strictly later than all its others, a GET for the device that meets no
\* backend fault returns 200 with the values of that latest reading, on the
\* relational backend and on the file backend alike.
LatestWins ==
    (resp.op = "GET" /\ Healthy) =>
        LET S == SavesFor(Str(resp.device))
        IN \A i \in S :
              (Cardinality(S) >= 2
                 /\ \A j \in S \ {i} : TimeLess(log[j].time, log[i].time))
              => (resp.status = 200 /\ SameReading(resp.body, log[i].data))

\* C2: a GET for device D that directly follows a successful POST of reading
\* r for D (the clock having advanced since D's earlier readings) and meets
\* no backend fault returns 200 with r's six measured values, whatever
\* readings of other devices the store holds.
RoundTrip ==
    (resp.op = "GET" /\ Healthy /\ Len(log) > 0) =>
        LET n == Len(log)
        IN (log[n].device = Str(resp.device)
              /\ \A j \in SavesFor(log[n].device) \ {n} :
                    TimeLess(log[j].time, log[n].time))
           => (resp.status = 200 /\ SameReading(resp.body, log[n].data))

\* C3: a GET for a device id for which no reading was ever saved, meeting no
\* backend fault, returns 404, whatever readings of other devices exist.
NotFound ==
    (resp.op = "GET" /\ Healthy /\ SavesFor(Str(resp.device)) = {})
        => resp.status = 404

\* C4: a POST whose payload lacks at least one of device_id, temperature,
\* humidity, flow_rate is answered 400 {"error": "Missing required fields"}
\* and save_data is not invoked for it.
MissingFieldsRejected ==
    (resp.op = "POST"
       /\ \E k \in {"device_id", "temperature", "humidity", "flow_rate"} :
             k \notin DOMAIN resp.data)
        => (resp.status = 400 /\ resp.error = "Missing required fields"
              /\ ~resp.saveInvoked)

MissingFieldsWitness ==
    /\ resp.op = "POST"
    /\ resp.status = 400
    /\ DOMAIN resp.data = {"device_id", "temperature", "humidity",
                           "flow_direction", "latitude", "longitude"}
    /\ StoreSize > 0

\* C5: the store holds exactly one record per successful save: no save
\* replaces a record written by an earlier one, on either backend.
AppendOnly == StoreSize = Len(log)

\* C6: every persisted record has a non-null device_id and carries a
\* timestamp, on either backend.
PersistedRecord ==
    /\ \A i \in 1..Len(rows) :
          rows[i].device_id # Null /\ rows[i].timestamp \in {TimeOf(k) : k \in 0..MaxTick}
    /\ \A f \in DOMAIN files :
          /\ Get(JsonLoad(files[f]), "device_id") # Null
          /\ \E k \in 0..MaxTick :
                LET tail == ReplaceColon(IsoFormat(TimeOf(k))) \o <<46, 106, 115, 111, 110>>
                IN Len(f) > Len(tail)
                     /\ SubSeq(f, Len(f) - Len(tail) + 1, Len(f)) = tail

\* C7: between requests no database connection is left open.
ConnectionRelease == openConns = 0

\* C8: no exception escapes a handler, and a request that meets a backend
\* failure ends with status 500 and a JSON body with an error key, which for
\* a POST is "Failed to save data".
NoUnhandledFault ==
    /\ ~resp.escaped
    /\ resp.fault # "none" =>
          /\ resp.status = 500
          /\ resp.error # ""
          /\ resp.op = "POST" => resp.error = "Failed to save data"

\* C9: whatever fails during init_db, the process reaches the serving state.
NonFatalInit == phase # "crashed"

\* C10: for one device_id and two save times t1, t2 with t2 at least one
\* second after t1, the file name of t2 is lexicographically greater than
\* that of t1, and max over the two names is the name of t2.
FileNameOrder ==
    (ord.pc = "done" /\ AtLeastOneSecond(ord.t1, ord.t2))
        => (LexLess(ord.f1, ord.f2) /\ ord.latest = ord.f2)

FileNameOrderWitness ==
    /\ ord.pc = "done"
    /\ AtLeastOneSecond(ord.t1, ord.t2)
    /\ ord.t1.usec = 0
    /\ ord.t2.usec # 0
    /\ ord.t1.sec % 60 = 9
    /\ ord.t2.sec % 60 = 10
    /\ ord.latest = ord.f2

====
